---------------------------- MODULE Spec2Model ----------------------------
(***************************************************************************)
(* DreamWell (src/app/sleep-wellness-app.tsx): the React component's state *)
(* and its event handlers as a state machine.                              *)
(*                                                                         *)
(* React flushes the state updates of a discrete event (click, submit)     *)
(* and re-renders before the next event is dispatched, so each handler     *)
(* together with the render that follows it is one atomic action.  The     *)
(* audio effect (lines 128-137) is split into its two calls on the audio   *)
(* element so that the order of "stop" and "start" is observable; no other *)
(* handler runs between them (pc # "idle" disables every handler).         *)
(*                                                                         *)
(* Time: `now` is the value of Date.now() / new Date(), counted in ticks   *)
(* of which TicksPerDay make one day; the time zone is UTC.  A date-only   *)
(* form value "YYYY-MM-DD" is modelled by its day number; new Date(date)   *)
(* is the UTC midnight of that day.                                        *)
(***************************************************************************)
EXTENDS Integers, Sequences, FiniteSets

VARIABLES
  showSplash,          \* line 111
  activeTab,           \* line 112
  sleepEntries,        \* line 113: the Entry Store, a sequence of entries
  showNewEntryDialog,  \* line 114
  selectedExercise,    \* line 116: null or an exercise
  isPlaying,           \* line 117
  audioMounted,        \* line 118/453: audioRef.current is an element
  audioSrc,            \* the element's src attribute
  audioPaused,         \* the element's paused attribute
  sounding,            \* the audio sources the playback device is emitting
  now,                 \* the wall clock (Date.now())
  pc,                  \* position inside the audio effect
  lastEvent,           \* the handler that ran last, its argument, and
                       \* the length of the store when it was called
  durationCall         \* a call of getSleepDuration: its arguments and,
                       \* once it has returned, its result (else null)

vars == <<showSplash, activeTab, sleepEntries, showNewEntryDialog,
          selectedExercise, isPlaying, audioMounted, audioSrc, audioPaused,
          sounding, now, pc, lastEvent, durationCall>>

storeVars == <<sleepEntries, showNewEntryDialog, now>>
audioVars == <<selectedExercise, isPlaying, audioMounted, audioSrc,
               audioPaused, sounding, pc>>

(* ------------------------------ bounds -------------------------------- *)
MaxEntries == 3
MaxTicks == 1
TicksPerDay == 2
StartDay == 8

(* ----------------------------- constants ------------------------------ *)
WeekDays == 7

null == [kind |-> "null"]

Tabs == {"dashboard", "diary", "environment", "relax", "learn", "analysis"}

relaxationExercises ==
  << [title |-> "Progressive Muscle Relaxation", audioUrl |-> "pmr-audio.mp3"],
     [title |-> "Deep Breathing",                audioUrl |-> "breathing-audio.mp3"],
     [title |-> "Body Scan Meditation",          audioUrl |-> "body-scan-audio.mp3"] >>

StartNow == StartDay * TicksPerDay
MaxNow == StartNow + MaxTicks

(* ------------------------------ helpers ------------------------------- *)
Digits == <<"0", "1", "2", "3", "4", "5", "6", "7", "8", "9">>

RECURSIVE ToString(_)
ToString(n) ==
  IF n < 10 THEN <<Digits[n + 1]>>
  ELSE ToString(n \div 10) \o <<Digits[(n % 10) + 1]>>

IdInputs == {ToString(t) : t \in StartNow..MaxNow}

(* The value of an <input type="time">: "HH:MM". *)
TimeString(h, m) ==
  <<Digits[(h \div 10) + 1], Digits[(h % 10) + 1], ":",
    Digits[(m \div 10) + 1], Digits[(m % 10) + 1]>>

(* The values the form can submit: a required date, a required integer     *)
(* quality with min=1 max=10, required bed and wake times.  The diary and  *)
(* metrics handlers never read the times, the chart never reads the        *)
(* quality: each is varied where it is read.                               *)
FormDates == {StartDay - 8, StartDay - 7, StartDay + 1}
FormQualities == {1, 10}
FormInputs ==
  [date : FormDates, sleepQuality : FormQualities,
   bedTime : {TimeString(23, 0)}, wakeTime : {TimeString(6, 15)}]

ChartFormInputs ==
  [date : {StartDay - 7, StartDay + 1}, sleepQuality : {5},
   bedTime : {TimeString(23, 0), TimeString(6, 15)},
   wakeTime : {TimeString(6, 15)}]

Exercises == {relaxationExercises[i] : i \in DOMAIN relaxationExercises}

(* new Date(entry.date).getTime() *)
DateGetTime(date) == date * TicksPerDay

(* ---------------------------- Entry Store ----------------------------- *)
(* Mutant: the new entry is put in front ([entry, ...sleepEntries]). *)
SpreadAppend_Prepend(entries, entry) == <<entry>> \o entries

SpreadAppend(entries, entry) == entries \o <<entry>>

(* Mutant: splice(findIndex(id), 1); findIndex's -1 removes the last entry. *)
FilterOutId_Splice(entries, id) ==
  IF \E i \in DOMAIN entries : entries[i].id = id
  THEN LET k == CHOOSE i \in DOMAIN entries :
                  /\ entries[i].id = id
                  /\ \A j \in 1..(i - 1) : entries[j].id # id
       IN  SubSeq(entries, 1, k - 1) \o SubSeq(entries, k + 1, Len(entries))
  ELSE SubSeq(entries, 1, Len(entries) - 1)

FilterOutId(entries, id) == SelectSeq(entries, LAMBDA e : e.id # id)

NewEntry(f, t) ==
  [id |-> ToString(t), date |-> f.date, bedTime |-> f.bedTime,
   wakeTime |-> f.wakeTime, sleepQuality |-> f.sleepQuality]

(* Mutant: an unstable sort, entries of equal date end up reversed. *)
RECURSIVE InsertByDate_Unstable(_, _)
InsertByDate_Unstable(sorted, e) ==
  IF sorted = <<>> THEN <<e>>
  ELSE IF DateGetTime(sorted[Len(sorted)].date) - DateGetTime(e.date) >= 0
       THEN InsertByDate_Unstable(SubSeq(sorted, 1, Len(sorted) - 1), e)
              \o <<sorted[Len(sorted)]>>
       ELSE sorted \o <<e>>

(* Array.prototype.sort with the date comparator: stable, in place. *)
RECURSIVE InsertByDate(_, _)
InsertByDate(sorted, e) ==
  IF sorted = <<>> THEN <<e>>
  ELSE IF DateGetTime(sorted[Len(sorted)].date) - DateGetTime(e.date) > 0
       THEN InsertByDate(SubSeq(sorted, 1, Len(sorted) - 1), e)
              \o <<sorted[Len(sorted)]>>
       ELSE sorted \o <<e>>

RECURSIVE SortByDate(_)
SortByDate(entries) ==
  IF entries = <<>> THEN <<>>
  ELSE InsertByDate(SortByDate(SubSeq(entries, 1, Len(entries) - 1)),
                    entries[Len(entries)])

(* ------------------------ Duration Calculator ------------------------- *)
(* A string is the sequence of its characters. *)
RECURSIVE Split(_, _)
Split(str, sep) ==
  IF \E i \in DOMAIN str : str[i] = sep
  THEN LET k == CHOOSE i \in DOMAIN str :
                  str[i] = sep /\ \A j \in 1..(i - 1) : str[j] # sep
       IN  <<SubSeq(str, 1, k - 1)>>
             \o Split(SubSeq(str, k + 1, Len(str)), sep)
  ELSE <<str>>

DigitValue(c) == CHOOSE d \in 0..9 : Digits[d + 1] = c

(* Number(str) of a string of decimal digits *)
RECURSIVE Number(_)
Number(str) ==
  IF str = <<>> THEN 0
  ELSE 10 * Number(SubSeq(str, 1, Len(str) - 1)) + DigitValue(str[Len(str)])

MapNumber(parts) == [i \in DOMAIN parts |-> Number(parts[i])]

(* Mutant: the day is added when the difference is not positive. *)
getSleepDuration_WrapAtZero(bedTime, wakeTime) ==
  LET bed == MapNumber(Split(bedTime, ":"))
      wake == MapNumber(Split(wakeTime, ":"))
      duration == (wake[1] * 60 + wake[2]) - (bed[1] * 60 + bed[2])
  IN  [num |-> IF duration <= 0 THEN duration + 24 * 60 ELSE duration,
       den |-> 60]

(* The hours returned are the quotient num / den, kept exact. *)
getSleepDuration(bedTime, wakeTime) ==
  LET bedHours == MapNumber(Split(bedTime, ":"))[1]
      bedMinutes == MapNumber(Split(bedTime, ":"))[2]
      wakeHours == MapNumber(Split(wakeTime, ":"))[1]
      wakeMinutes == MapNumber(Split(wakeTime, ":"))[2]
      duration == (wakeHours * 60 + wakeMinutes) - (bedHours * 60 + bedMinutes)
  IN  [num |-> IF duration < 0 THEN duration + 24 * 60 ELSE duration,
       den |-> 60]

(* ----------------------- Chart Data Preparation ----------------------- *)
(* data of the Sleep Quality Trend chart, line 555: the sorted state array *)
QualityChartData(entries) == SortByDate(entries)

(* data of the Sleep Duration Analysis chart, lines 577-580 *)
DurationChartData(entries) ==
  LET sorted == SortByDate(entries)
  IN  [i \in DOMAIN sorted |->
         [id |-> sorted[i].id, date |-> sorted[i].date,
          bedTime |-> sorted[i].bedTime, wakeTime |-> sorted[i].wakeTime,
          sleepQuality |-> sorted[i].sleepQuality,
          sleepDuration |->
            getSleepDuration(sorted[i].bedTime, sorted[i].wakeTime)]]

(* What rendering the Analysis tab leaves in the array held as state: the  *)
(* first chart sorts it in place, the second sorts it again.               *)
RenderAnalysis(entries) ==
  IF Len(entries) > 0 THEN SortByDate(QualityChartData(entries))
  ELSE entries

DurationHours == 0..23
DurationMinutes == {0, 15, 30, 59}
TimeInputs == {TimeString(h, m) : h \in DurationHours, m \in DurationMinutes}

(* -------------------------------- Init -------------------------------- *)
InitComponent ==
  /\ showSplash = TRUE
  /\ activeTab = "dashboard"
  /\ sleepEntries = <<>>
  /\ showNewEntryDialog = FALSE
  /\ selectedExercise = null
  /\ isPlaying = FALSE
  /\ audioMounted = FALSE
  /\ audioSrc = ""
  /\ audioPaused = TRUE
  /\ sounding = {}
  /\ now = StartNow
  /\ pc = "idle"
  /\ lastEvent = [op |-> "init", id |-> <<>>, n |-> 0]

Init == InitComponent /\ durationCall = null

(* ------------------------------ actions ------------------------------- *)
Ready == ~showSplash /\ pc = "idle"

DismissSplash ==
  /\ showSplash /\ pc = "idle"
  /\ showSplash' = FALSE
  /\ lastEvent' = [op |-> "splash", id |-> <<>>, n |-> Len(sleepEntries)]
  /\ UNCHANGED <<durationCall, activeTab, storeVars, audioVars>>

Tick ==
  /\ now < MaxNow
  /\ pc = "idle"
  /\ now' = now + 1
  /\ lastEvent' = [op |-> "tick", id |-> <<>>, n |-> Len(sleepEntries)]
  /\ UNCHANGED <<durationCall, showSplash, activeTab, sleepEntries, showNewEntryDialog,
                 audioVars>>

(* Tabs onValueChange = setActiveTab, and the render that follows.  Only    *)
(* the active tab's content is mounted: the <audio> element lives in the    *)
(* Relax tab, and an element removed from the document is paused; the       *)
(* Analysis tab's render sorts the state array in place.                    *)
SelectTab(t) ==
  /\ Ready
  /\ ~showNewEntryDialog
  /\ t # activeTab
  /\ activeTab' = t
  /\ sleepEntries' = IF t = "analysis" THEN RenderAnalysis(sleepEntries)
                     ELSE sleepEntries
  /\ audioMounted' = (t = "relax")
  /\ IF activeTab = "relax" \/ t = "relax"
     THEN audioSrc' = "" /\ audioPaused' = TRUE /\ sounding' = {}
     ELSE UNCHANGED <<audioSrc, audioPaused, sounding>>
  /\ lastEvent' = [op |-> "tab", id |-> <<>>, n |-> Len(sleepEntries)]
  /\ UNCHANGED <<durationCall, showSplash, showNewEntryDialog, now, selectedExercise,
                 isPlaying, pc>>

(* "New Entry" button of the diary tab, line 330 *)
OpenDialog ==
  /\ Ready
  /\ activeTab = "diary"
  /\ ~showNewEntryDialog
  /\ showNewEntryDialog' = TRUE
  /\ lastEvent' = [op |-> "open", id |-> <<>>, n |-> Len(sleepEntries)]
  /\ UNCHANGED <<durationCall, showSplash, activeTab, sleepEntries, now, audioVars>>

(* Dialog onOpenChange(false), line 604 *)
CloseDialog ==
  /\ Ready
  /\ showNewEntryDialog
  /\ showNewEntryDialog' = FALSE
  /\ lastEvent' = [op |-> "close", id |-> <<>>, n |-> Len(sleepEntries)]
  /\ UNCHANGED <<durationCall, showSplash, activeTab, sleepEntries, now, audioVars>>

addSleepEntry(entry) ==
  sleepEntries' = SpreadAppend(sleepEntries, entry)

(* form onSubmit, lines 610-623 *)
FormOnSubmit(f) ==
  /\ Ready
  /\ showNewEntryDialog
  /\ Len(sleepEntries) < MaxEntries
  /\ addSleepEntry(NewEntry(f, now))
  /\ showNewEntryDialog' = FALSE
  /\ lastEvent' = [op |-> "submit", id |-> ToString(now),
                   n |-> Len(sleepEntries)]
  /\ UNCHANGED <<durationCall, showSplash, activeTab, now, audioVars>>

(* deleteSleepEntry, lines 143-145.  The Trash button (line 345) passes the *)
(* id of a listed entry; the handler takes any id, and a call with an id no *)
(* entry has is the contract's no-op case.                                  *)
deleteSleepEntry(id) ==
  /\ Ready
  /\ activeTab = "diary"
  /\ ~showNewEntryDialog
  /\ sleepEntries' = FilterOutId(sleepEntries, id)
  /\ lastEvent' = [op |-> "delete", id |-> id, n |-> Len(sleepEntries)]
  /\ UNCHANGED <<durationCall, showSplash, activeTab, showNewEntryDialog, now, audioVars>>

(* ------------------------- Metrics Calculator ------------------------- *)
(* Mutant: reduce without its initial value, the first entry not added. *)
ReduceQuality_NoInit(entries, acc) ==
  LET S[i \in 1..Len(entries)] ==
        IF i = 1 THEN acc ELSE S[i - 1] + entries[i].sleepQuality
  IN  IF entries = <<>> THEN acc ELSE S[Len(entries)]

RECURSIVE ReduceQuality(_, _)
ReduceQuality(entries, acc) ==
  IF entries = <<>> THEN acc
  ELSE ReduceQuality(Tail(entries), acc + Head(entries).sleepQuality)

(* weekAgo = new Date(); weekAgo.setDate(weekAgo.getDate() - 7) *)
WeekAgo(t) == t - WeekDays * TicksPerDay

LastWeekFilter(entries, t) ==
  SelectSeq(entries, LAMBDA entry : DateGetTime(entry.date) >= WeekAgo(t))

(* Mutant: totalEntries taken from the filtered list. *)
calculateSleepMetrics_WeekTotal(entries, t) ==
  IF Len(entries) = 0 THEN null
  ELSE [kind |-> "metrics",
        averageQuality |-> [num |-> ReduceQuality(entries, 0),
                            den |-> Len(entries)],
        totalEntries |-> Len(LastWeekFilter(entries, t)),
        lastWeekEntries |-> Len(LastWeekFilter(entries, t))]

(* averageQuality is the quotient num / den, kept exact. *)
calculateSleepMetrics(entries, t) ==
  IF Len(entries) = 0 THEN null
  ELSE [kind |-> "metrics",
        averageQuality |-> [num |-> ReduceQuality(entries, 0),
                            den |-> Len(entries)],
        totalEntries |-> Len(entries),
        lastWeekEntries |-> Len(LastWeekFilter(entries, t))]

(* ------------------------------- audio -------------------------------- *)
(* the label of an exercise's button, lines 437-447 *)
ButtonLabel(exercise) ==
  IF isPlaying /\ selectedExercise # null
       /\ selectedExercise.title = exercise.title
  THEN "Pause" ELSE "Start"

(* exercise Button onClick, lines 432-435; lastEvent keeps the exercise  *)
(* clicked and the label its button showed.                              *)
ClickExercise(exercise) ==
  /\ Ready
  /\ activeTab = "relax"
  /\ selectedExercise' = exercise
  /\ isPlaying' = ~isPlaying
  /\ pc' = "effect_src"
  /\ lastEvent' = [op |-> "click",
                   id |-> <<exercise.title, ButtonLabel(exercise)>>,
                   n |-> Len(sleepEntries)]
  /\ UNCHANGED <<durationCall, showSplash, activeTab, storeVars, audioMounted, audioSrc,
                 audioPaused, sounding>>

(* Mutant: the source is given to a new Audio object, the old one left on. *)
SoundingAfterSrc_Keep(s) == s

(* Assigning src runs the media element's load algorithm, which ends the   *)
(* playback of the element's previous resource.                            *)
SoundingAfterSrc(s) == {}

(* useEffect lines 129-130 *)
EffectSetSrc ==
  /\ pc = "effect_src"
  /\ IF selectedExercise # null /\ audioMounted
     THEN /\ audioSrc' = selectedExercise.audioUrl
          /\ audioPaused' = TRUE
          /\ sounding' = SoundingAfterSrc(sounding)
          /\ pc' = "effect_play"
     ELSE /\ pc' = "idle"
          /\ UNCHANGED <<audioSrc, audioPaused, sounding>>
  /\ UNCHANGED <<durationCall, showSplash, activeTab, storeVars, selectedExercise,
                 isPlaying, audioMounted, lastEvent>>

(* Mutant: play() is called whatever isPlaying is. *)
EffectPlayPause_AlwaysPlay ==
  /\ pc = "effect_play"
  /\ audioPaused' = FALSE
  /\ sounding' = sounding \cup {audioSrc}
  /\ pc' = "idle"
  /\ UNCHANGED <<durationCall, showSplash, activeTab, storeVars,
                 selectedExercise, isPlaying, audioMounted, audioSrc,
                 lastEvent>>

(* useEffect lines 131-135 *)
EffectPlayPause ==
  /\ pc = "effect_play"
  /\ IF isPlaying
     THEN audioPaused' = FALSE /\ sounding' = sounding \cup {audioSrc}
     ELSE audioPaused' = TRUE /\ sounding' = sounding \ {audioSrc}
  /\ pc' = "idle"
  /\ UNCHANGED <<durationCall, showSplash, activeTab, storeVars, selectedExercise,
                 isPlaying, audioMounted, audioSrc, lastEvent>>

(* The clip plays to its end (the element has no loop attribute): the      *)
(* element pauses itself; isPlaying is not told.                           *)
AudioEnded ==
  /\ Ready
  /\ audioMounted
  /\ ~audioPaused
  /\ audioPaused' = TRUE
  /\ sounding' = sounding \ {audioSrc}
  /\ lastEvent' = [op |-> "ended", id |-> <<>>, n |-> Len(sleepEntries)]
  /\ UNCHANGED <<durationCall, showSplash, activeTab, storeVars, selectedExercise,
                 isPlaying, audioMounted, audioSrc, pc>>

(* A call of getSleepDuration on any pair of times. *)
InitDuration ==
  /\ InitComponent
  /\ durationCall \in [bedTime : TimeInputs, wakeTime : TimeInputs,
                        result : {null}]

CallGetSleepDuration ==
  /\ durationCall # null
  /\ durationCall.result = null
  /\ durationCall' =
       [durationCall EXCEPT
          !.result = getSleepDuration(durationCall.bedTime,
                                      durationCall.wakeTime)]
  /\ UNCHANGED <<showSplash, activeTab, storeVars, audioVars, lastEvent>>

(* --------------------------- specifications --------------------------- *)
(* The diary handlers and the audio handlers share no variable but         *)
(* activeTab, so each is explored with the other's handlers left out.      *)
Next ==
  \/ DismissSplash
  \/ Tick
  \/ \E t \in Tabs : SelectTab(t)
  \/ OpenDialog
  \/ CloseDialog
  \/ \E f \in FormInputs : FormOnSubmit(f)
  \/ \E id \in IdInputs : deleteSleepEntry(id)

Spec == Init /\ [][Next]_vars

NextAudio ==
  \/ DismissSplash
  \/ Tick
  \/ \E t \in Tabs : SelectTab(t)
  \/ \E e \in Exercises : ClickExercise(e)
  \/ EffectSetSrc
  \/ EffectPlayPause
  \/ AudioEnded

SpecAudio == Init /\ [][NextAudio]_vars

(* Exercise-button clicks only: the Relax tab is reached and, from the     *)
(* first click on, no other handler runs and the clip does not end.        *)
SelectTabBeforeClicks(t) == selectedExercise = null /\ SelectTab(t)

NextClicks ==
  \/ DismissSplash
  \/ Tick
  \/ \E t \in Tabs : SelectTabBeforeClicks(t)
  \/ \E e \in Exercises : ClickExercise(e)
  \/ EffectSetSrc
  \/ EffectPlayPause

SpecClicks == Init /\ [][NextClicks]_vars

(* The diary handlers again, over form values that vary the times. *)
NextChart ==
  \/ DismissSplash
  \/ Tick
  \/ \E t \in Tabs : SelectTab(t)
  \/ OpenDialog
  \/ CloseDialog
  \/ \E f \in ChartFormInputs : FormOnSubmit(f)
  \/ \E id \in IdInputs : deleteSleepEntry(id)

SpecChart == Init /\ [][NextChart]_vars

NextDuration == CallGetSleepDuration

SpecDuration == InitDuration /\ [][NextDuration]_vars

(* ------------------------------- claims -------------------------------- *)
Today == now \div TicksPerDay

Metrics == calculateSleepMetrics(sleepEntries, now)

HasId(entries, id) == \E i \in DOMAIN entries : entries[i].id = id

(* C1: no two entries of the store have the same id, whatever the sequence *)
(* of submissions and deletions, also when two submissions read the same   *)
(* clock value.                                                            *)
C1_UniqueIds ==
  \A i, j \in DOMAIN sleepEntries :
    i # j => sleepEntries[i].id # sleepEntries[j].id

(* C2: rendering the Analysis tab (preparing the chart data) leaves the    *)
(* store as it was: same entries, same insertion order.                    *)
C2_ChartLeavesStore ==
  [][(activeTab # "analysis" /\ activeTab' = "analysis")
       => sleepEntries' = sleepEntries]_vars

(* C3: at most one audio source is playing in every state, and when the    *)
(* effect is about to start or pause the selected exercise's audio, the    *)
(* audio that was playing before has already been stopped.                 *)
C3_SingleSource ==
  /\ Cardinality(sounding) <= 1
  /\ pc = "effect_play" => sounding = {}

(* C3 witness: another exercise has just been clicked while one exercise's *)
(* audio is playing, and the effect is about to run.                       *)
C3_Witness ==
  /\ pc = "effect_src"
  /\ sounding # {}
  /\ selectedExercise # null
  /\ selectedExercise.audioUrl \notin sounding

(* C4: lastWeekEntries is the number of entries dated within the inclusive *)
(* window [today - 7 days, today], at any time of day.                     *)
C4_LastWeekWindow ==
  Len(sleepEntries) > 0 =>
    Metrics.lastWeekEntries =
      Cardinality({i \in DOMAIN sleepEntries :
                     /\ Today - WeekDays <= sleepEntries[i].date
                     /\ sleepEntries[i].date <= Today})

(* C5: adding an entry with the id generated now and then deleting that id *)
(* gives back the store exactly as it was.                                 *)
C5_AddDeleteRoundTrip ==
  \A f \in FormInputs :
    FilterOutId(SpreadAppend(sleepEntries, NewEntry(f, now)), ToString(now))
      = sleepEntries

(* C6: a deletion shortens the store by 0 or 1, and every entry with       *)
(* another id stays, in its previous relative order.                       *)
C6_DeleteAtMostOne ==
  [][lastEvent'.op = "delete" =>
       /\ Len(sleepEntries) - Len(sleepEntries') \in {0, 1}
       /\ sleepEntries' =
            SelectSeq(sleepEntries, LAMBDA e : e.id # lastEvent'.id)]_vars

(* C7: deleting an id that no entry has leaves the store unchanged.        *)
C7_DeleteAbsentNoOp ==
  [][(lastEvent'.op = "delete" /\ ~HasId(sleepEntries, lastEvent'.id))
       => sleepEntries' = sleepEntries]_vars

(* C7 witness: a deletion ran on a non-empty store and removed nothing.    *)
C7_Witness ==
  /\ lastEvent.op = "delete"
  /\ lastEvent.n = Len(sleepEntries)
  /\ Len(sleepEntries) >= 2
  /\ ~HasId(sleepEntries, lastEvent.id)

C9_NullIffEmpty ==
  LET m == Metrics
  IN  /\ (m = null) <=> (Len(sleepEntries) = 0)
      /\ Len(sleepEntries) > 0 =>
            m.kind = "metrics" /\ m.totalEntries = Len(sleepEntries)

(* C9 witness: the dashboard is shown over a store of several entries, not *)
(* all of them within the last week.                                       *)
C9_Witness ==
  /\ activeTab = "dashboard"
  /\ Len(sleepEntries) >= 2
  /\ Metrics.lastWeekEntries < Len(sleepEntries)

SumQuality(entries) ==
  LET S[i \in 0..Len(entries)] ==
        IF i = 0 THEN 0 ELSE S[i - 1] + entries[i].sleepQuality
  IN  S[Len(entries)]

(* C10: over a non-empty store with every sleepQuality in 1..10, the       *)
(* average is the sum of the qualities over the number of entries, and     *)
(* count <= sum <= 10 * count.                                             *)
C10_AverageIsMean ==
  (/\ Len(sleepEntries) > 0
   /\ \A i \in DOMAIN sleepEntries : sleepEntries[i].sleepQuality \in 1..10)
  => LET avg == Metrics.averageQuality
     IN  /\ avg.num = SumQuality(sleepEntries)
         /\ avg.den = Len(sleepEntries)
         /\ avg.den <= avg.num
         /\ avg.num <= 10 * avg.den

(* C10 witness: the dashboard is shown over entries of different quality.  *)
C10_Witness ==
  /\ activeTab = "dashboard"
  /\ Len(sleepEntries) >= 2
  /\ \E i, j \in DOMAIN sleepEntries :
       sleepEntries[i].sleepQuality # sleepEntries[j].sleepQuality

MinutesOf(time) ==
  LET hm == CHOOSE p \in DurationHours \X DurationMinutes :
              TimeString(p[1], p[2]) = time
  IN  hm[1] * 60 + hm[2]

(* C11: for every pair of HH:MM times the duration in minutes is           *)
(* wakeMinutes - bedMinutes when that is >= 0 and that plus 1440           *)
(* otherwise, always in [0, 1440); 23:00->07:00 gives 480, 22:30->06:15    *)
(* gives 465, and equal times give 0.                                      *)
C11_DurationWraps ==
  (durationCall # null /\ durationCall.result # null) =>
    LET bed == MinutesOf(durationCall.bedTime)
        wake == MinutesOf(durationCall.wakeTime)
        r == durationCall.result
    IN  /\ r.den = 60
        /\ wake - bed >= 0 => r.num = wake - bed
        /\ wake - bed < 0 => r.num = wake - bed + 1440
        /\ 0 <= r.num /\ r.num < 1440
        /\ (bed = 23 * 60 /\ wake = 7 * 60) => r.num = 480
        /\ (bed = 22 * 60 + 30 /\ wake = 6 * 60 + 15) => r.num = 465
        /\ bed = wake => r.num = 0

(* C11 witness: the call returned for 22:30 -> 06:15, across midnight.     *)
C11_Witness ==
  /\ durationCall # null
  /\ durationCall.result # null
  /\ durationCall.bedTime = TimeString(22, 30)
  /\ durationCall.wakeTime = TimeString(6, 15)

SameDate(entries, d) == SelectSeq(entries, LAMBDA e : e.date = d)

IsSortedByDate(rows) ==
  \A i, j \in DOMAIN rows : i < j => rows[i].date <= rows[j].date

Occurrences(rows, x) == Cardinality({i \in DOMAIN rows : rows[i] = x})

IsPermutation(a, b) ==
  /\ Len(a) = Len(b)
  /\ \A i \in DOMAIN a : Occurrences(a, a[i]) = Occurrences(b, a[i])

StripDuration(rows) ==
  [i \in DOMAIN rows |->
     [id |-> rows[i].id, date |-> rows[i].date, bedTime |-> rows[i].bedTime,
      wakeTime |-> rows[i].wakeTime, sleepQuality |-> rows[i].sleepQuality]]

(* The rows handed to a chart, against the store they were made from. *)
ChartRowsOk(rows, store) ==
  /\ IsSortedByDate(rows)
  /\ IsPermutation(rows, store)
  /\ \A d \in FormDates : SameDate(rows, d) = SameDate(store, d)

(* Entries of one date stand in the store in the order of their insertion: *)
(* a submission puts the new entry last, a deletion takes entries out, and *)
(* no other step moves an entry past another of its date.                  *)
KeepsInsertionOrder ==
  \A d \in FormDates :
    \/ sleepEntries' = sleepEntries
    \/ SameDate(sleepEntries', d) =
         IF lastEvent'.op = "submit"
         THEN SameDate(sleepEntries, d)
                \o SameDate(<<sleepEntries'[Len(sleepEntries')]>>, d)
         ELSE IF lastEvent'.op = "delete"
         THEN FilterOutId(SameDate(sleepEntries, d), lastEvent'.id)
         ELSE SameDate(sleepEntries, d)

(* C12: when the Analysis tab is rendered, the rows handed to each chart   *)
(* are a permutation of the store's entries in ascending date order, and   *)
(* entries of the same date keep the order in which they were inserted.    *)
C12_ChartSortedStable ==
  [][/\ KeepsInsertionOrder
     /\ (activeTab # "analysis" /\ activeTab' = "analysis"
           /\ Len(sleepEntries) > 0)
        => LET quality == QualityChartData(sleepEntries)
               duration == DurationChartData(quality)
           IN  /\ ChartRowsOk(quality, sleepEntries)
               /\ ChartRowsOk(StripDuration(duration), sleepEntries)
               /\ \A i \in DOMAIN duration :
                     duration[i].sleepDuration =
                       getSleepDuration(duration[i].bedTime,
                                        duration[i].wakeTime)]_vars

(* C12 witness: the Analysis tab has just been rendered over three entries *)
(* of which two share a date and differ, and the sort has moved a later    *)
(* submission in front of an earlier one.                                  *)
C12_Witness ==
  /\ activeTab = "analysis"
  /\ lastEvent.op = "tab"
  /\ Len(sleepEntries) >= 3
  /\ \E i, j \in DOMAIN sleepEntries :
       /\ i < j
       /\ sleepEntries[i].date = sleepEntries[j].date
       /\ sleepEntries[i].bedTime # sleepEntries[j].bedTime
  /\ \E i, j \in DOMAIN sleepEntries :
       /\ i < j
       /\ Number(sleepEntries[i].id) > Number(sleepEntries[j].id)

(* C13: once a click and its effect have run, the clicked exercise is      *)
(* selected, and it is playing if its button showed "Start", paused if     *)
(* its button showed "Pause".                                              *)
C13_ButtonDoesLabel ==
  (lastEvent.op = "click" /\ pc = "idle") =>
    /\ selectedExercise # null
    /\ selectedExercise.title = lastEvent.id[1]
    /\ lastEvent.id[2] = "Start" =>
         /\ isPlaying
         /\ ~audioPaused
         /\ audioSrc = selectedExercise.audioUrl
    /\ lastEvent.id[2] = "Pause" => ~isPlaying /\ audioPaused

(* C14: with the effect run, isPlaying implies a selected exercise, the    *)
(* audio element plays exactly when isPlaying, and what it plays is the    *)
(* selected exercise's audioUrl.                                           *)
C14_PlayingMatchesElement ==
  pc = "idle" =>
    /\ isPlaying => selectedExercise # null
    /\ isPlaying <=> ~audioPaused
    /\ ~audioPaused =>
         /\ selectedExercise # null
         /\ audioSrc = selectedExercise.audioUrl
         /\ sounding = {audioSrc}

(* C14 witness: a click on a button that showed "Start" has run with its   *)
(* effect, and the third exercise's audio is playing.                      *)
C14_Witness ==
  /\ pc = "idle"
  /\ lastEvent.op = "click"
  /\ isPlaying
  /\ ~audioPaused
  /\ selectedExercise = relaxationExercises[3]
  /\ lastEvent.id[2] = "Start"

=============================================================================
